---- MODULE Spec2Model ----
(***************************************************************************)
(* The HTTP/2 priority tree of src/src/priority/priority.py: the Stream    *)
(* objects (weight, active, parent, children, child_queue, last_weight,    *)
(* _defecit), the PriorityTree index (_streams) and its public operations  *)
(* insert_stream, remove_stream, block, unblock and next.                  *)
(*                                                                         *)
(* Stream objects are named by handles.  The root object has handle 0, the *)
(* stream with id i >= 1 has handle i, and a non-root Stream object that   *)
(* carries stream_id 0 (it can be created once remove_stream(0) has popped *)
(* the root from _streams) has the handle ZeroH.  Stream comparison is by  *)
(* stream_id, as in Stream.__eq__ / __lt__.                                *)
(*                                                                         *)
(* Every operation is an operator from a tree value to the tree afterwards *)
(* and the outcome of the call ("ok", or the exception it raises); assert  *)
(* statements are executed, as in the interpreter's default mode.  A call  *)
(* that raises keeps whatever it changed before raising.                   *)
(*                                                                         *)
(* The specifications share the operators: Spec (any sequence of the five  *)
(* public operations, failing calls included), SpecFlat (the flat trees of *)
(* the output tests), SpecReadme (the readme tree of the manual tests,     *)
(* filtered by block or remove_stream, then scheduled), SpecWeights (calls *)
(* with weights of any value, which insert_stream does not validate),      *)
(* SpecOk (the calls that return normally) and SpecLive (SpecOk, then only *)
(* next() for ever, under weak fairness of the iterating caller).          *)
(***************************************************************************)
EXTENDS Integers, Sequences, FiniteSets, TLC

\* ------------------------------------------------------------- bounds
MaxId == 2
MaxNext == 2
MaxFlat == 3
Periods == 2
MaxRun == 6
Horizon == 12
MaxLive == 16

\* ---------------------------------------------------------- constants
QUANTUM == 256
DefaultWeight == 16
RootWeight == 1

RootH == 0
ZeroH == -1
None == -2

Weights == {3, DefaultWeight}
Ids == 0 .. MaxId
Deps == Ids \cup {None}

\* ------------------------------------------------------------- state
VARIABLES index, weight, active, parent, children, child_queue,
          last_weight, defecit, ret, results, pc, mode, chosen, calls

vars == <<index, weight, active, parent, children, child_queue,
          last_weight, defecit, ret, results, pc, mode, chosen, calls>>

\* The tree as one value: the fields of every live Stream object and _streams.
Tree ==
  [index |-> index, weight |-> weight, active |-> active, parent |-> parent,
   children |-> children, child_queue |-> child_queue,
   last_weight |-> last_weight, defecit |-> defecit]

Install(T) ==
  /\ index' = T.index
  /\ weight' = T.weight
  /\ active' = T.active
  /\ parent' = T.parent
  /\ children' = T.children
  /\ child_queue' = T.child_queue
  /\ last_weight' = T.last_weight
  /\ defecit' = T.defecit

\* ------------------------------------------------------------ helpers
Ext(f, h, v) == [x \in (DOMAIN f) \cup {h} |-> IF x = h THEN v ELSE f[x]]

Drop(f, h) == [x \in (DOMAIN f) \ {h} |-> f[x]]

\* Stream.stream_id of the object with handle h.
stream_id(h) == IF h = ZeroH THEN 0 ELSE h

\* Handle of a Stream object newly created with stream id i.
HandleOf(i) == IF i = 0 THEN ZeroH ELSE i

\* Stream.__eq__: equality of stream ids.
StreamEq(a, b) == stream_id(a) = stream_id(b)

\* Mutant: the comparison of __gt__ in the place of __lt__.
StreamLt_Reversed(a, b) == stream_id(a) > stream_id(b)

\* Stream.__lt__: order of stream ids.
StreamLt(a, b) == stream_id(a) < stream_id(b)

\* Tuple order of the (level, stream) entries of a PriorityQueue.
EntryLt(e, f) == e[1] < f[1] \/ (e[1] = f[1] /\ StreamLt(e[2], f[2]))

\* PriorityQueue.put: the queue is kept as the sorted sequence of its entries.
Put(q, e) ==
  LET k == Cardinality({i \in 1 .. Len(q) : ~EntryLt(e, q[i])})
  IN  SubSeq(q, 1, k) \o <<e>> \o SubSeq(q, k + 1, Len(q))

\* Stream.__init__: a new object, active, without parent or children.
NewStream(T, h, w) ==
  [T EXCEPT !.weight = Ext(@, h, w),
            !.active = Ext(@, h, TRUE),
            !.parent = Ext(@, h, None),
            !.children = Ext(@, h, <<>>),
            !.child_queue = Ext(@, h, <<>>),
            !.last_weight = Ext(@, h, 0),
            !.defecit = Ext(@, h, 0)]

\* An object nothing refers to any more.
Collect(T, h) ==
  [T EXCEPT !.weight = Drop(@, h),
            !.active = Drop(@, h),
            !.parent = Drop(@, h),
            !.children = Drop(@, h),
            !.child_queue = Drop(@, h),
            !.last_weight = Drop(@, h),
            !.defecit = Drop(@, h)]

\* PriorityTree.__init__: the root stream, inactive, weight 1.
InitTree ==
  [index |-> (0 :> RootH),
   weight |-> (RootH :> RootWeight),
   active |-> (RootH :> FALSE),
   parent |-> (RootH :> None),
   children |-> (RootH :> <<>>),
   child_queue |-> (RootH :> <<>>),
   last_weight |-> (RootH :> 0),
   defecit |-> (RootH :> 0)]

\* ------------------------------------------------- Stream operations

\* Mutant: the child is not told its parent.
add_child_NoParent(T, p, c) ==
  [T EXCEPT !.children[p] = Append(@, c),
            !.child_queue[p] = Put(@, <<T.last_weight[p], c>>)]

\* Mutant: the child joins the queue at level 0.
add_child_AtZero(T, p, c) ==
  [T EXCEPT !.parent[c] = p,
            !.children[p] = Append(@, c),
            !.child_queue[p] = Put(@, <<0, c>>)]

\* Stream.add_child
add_child(T, p, c) ==
  [T EXCEPT !.parent[c] = p,
            !.children[p] = Append(@, c),
            !.child_queue[p] = Put(@, <<T.last_weight[p], c>>)]

RECURSIVE AddAll(_, _, _, _)
\* "for x in cs: p.add_child(x)", from position i of cs on.
AddAll(T, p, cs, i) ==
  IF i > Len(cs) THEN T ELSE AddAll(add_child(T, p, cs[i]), p, cs, i + 1)

\* Mutant: the former children are dropped instead of moved below the child.
add_child_exclusive_Drop(T, p, c) ==
  add_child([T EXCEPT !.children[p] = <<>>,
                      !.child_queue[p] = <<>>,
                      !.last_weight[p] = 0], p, c)

\* Stream.add_child_exclusive
add_child_exclusive(T, p, c) ==
  LET old_children == T.children[p]
      T1 == [T EXCEPT !.children[p] = <<>>,
                      !.child_queue[p] = <<>>,
                      !.last_weight[p] = 0]
  IN  AddAll(add_child(T1, p, c), c, old_children, 1)

\* Mutant: the first child is taken off the list, whichever was asked for.
ListRemove_First(s, x) == Tail(s)

\* list.remove(x): the list without its first element equal to x.
ListRemove(s, x) ==
  LET hits == {i \in 1 .. Len(s) : StreamEq(s[i], x)}
      k == CHOOSE i \in hits : \A j \in hits : i <= j
  IN  SubSeq(s, 1, k - 1) \o SubSeq(s, k + 1, Len(s))

\* Mutant: the surviving entries are put back at level 0.
FilterQueue_Rebase(q, c) ==
  LET kept == SelectSeq(q, LAMBDA e : ~StreamEq(e[2], c))
  IN  [i \in 1 .. Len(kept) |-> <<0, kept[i][2]>>]

\* The drained queue without the entries of child (remove_child, lines 76-85);
\* it is sorted already, so putting its entries back keeps their order.
FilterQueue(q, c) == SelectSeq(q, LAMBDA e : ~StreamEq(e[2], c))

\* Mutant: the children of the removed stream are not taken over.
remove_child_Orphan(T, p, c) ==
  [T EXCEPT !.children[p] = ListRemove(@, c),
            !.child_queue[p] = FilterQueue(@, c)]

\* Stream.remove_child
remove_child(T, p, c) ==
  LET T1 == [T EXCEPT !.children[p] = ListRemove(@, c),
                      !.child_queue[p] = FilterQueue(@, c)]
  IN  AddAll(T1, p, T.children[c], 1)

\* Mutant: 255, the largest weight on the wire, in the place of 256.
NewLevel_Bytes(level, d, w) == level + ((255 + d) \div w)

\* Mutant: the step ignores the deficit carried over.
NewLevel_NoCarry(level, d, w) == level + (QUANTUM \div w)

\* Mutant: a popped entry is put back at the level it was popped from.
NewLevel_Stay(level, d, w) == level

\* The level and deficit a popped entry is put back with (lines 123-124).
NewLevel(level, d, w) == level + ((QUANTUM + d) \div w)

\* Mutant: the remainder of the division is not kept.
NewDefecit_Zero(d, w) == 0

NewDefecit(d, w) == (QUANTUM + d) % w

RECURSIVE Reschedule(_, _, _, _, _)
\* The finally block of Stream.schedule (lines 120-125), from position i of
\* popped on.  A weight of 0 raises ZeroDivisionError and leaves the rest of
\* popped out of the queue; out is the outcome the block was entered with.
Reschedule(T, h, popped, i, out) ==
  IF i > Len(popped) THEN [T |-> T, kind |-> out.kind, val |-> out.val]
  ELSE LET level == popped[i][1]
           c == popped[i][2]
           T1 == [T EXCEPT !.last_weight[h] = level]
       IN  IF T.weight[c] = 0
           THEN [T |-> T1, kind |-> "ZeroDivisionError", val |-> None]
           ELSE Reschedule(
                  [T1 EXCEPT
                     !.defecit[c] = NewDefecit(T.defecit[c], T.weight[c]),
                     !.child_queue[h] =
                        Put(@, <<NewLevel(level, T.defecit[c], T.weight[c]), c>>)],
                  h, popped, i + 1, out)

\* Mutant: the scheduler takes whatever child it pops, active or not.
ChildIsActive_Any(T, child) == TRUE

\* "if child.active:" (line 111): an active child is scheduled itself.
ChildIsActive(T, child) == T.active[child]

RECURSIVE schedule(_, _)
RECURSIVE Spin(_, _, _)
\* The while loop of Stream.schedule (lines 104-119) followed by its finally
\* block: popped is what has been taken off the queue of h so far.
Spin(T, h, popped) ==
  IF T.child_queue[h] = <<>>
  THEN Reschedule(T, h, popped, 1, [kind |-> "Empty", val |-> None])
  ELSE LET val == Head(T.child_queue[h])
           child == val[2]
           T1 == [T EXCEPT !.child_queue[h] = Tail(@)]
           popped1 == Append(popped, val)
       IN  IF ChildIsActive(T, child)
           THEN Reschedule(T1, h, popped1, 1,
                           [kind |-> "ok", val |-> stream_id(child)])
           ELSE LET r == schedule(T1, child)
                IN  IF r.kind = "Empty" THEN Spin(r.T, h, popped1)
                    ELSE Reschedule(r.T, h, popped1, 1,
                                    [kind |-> r.kind, val |-> r.val])

\* Stream.schedule: the tree afterwards and what the call returns or raises.
schedule(T, h) ==
  IF T.active[h]
  THEN [T |-> T, kind |-> "AssertionError", val |-> None]
  ELSE Spin(T, h, <<>>)

\* ------------------------------------------- PriorityTree operations

\* Mutant: an id that is present already is taken again (no assertion).
insert_stream_NoAssert(T, id, depends_on, w, exclusive) ==
  LET h == HandleOf(id)
      dep == IF exclusive THEN depends_on
             ELSE IF depends_on = None \/ depends_on = 0 THEN 0
             ELSE depends_on
  IN  IF dep \notin DOMAIN T.index
      THEN [T |-> T, kind |-> "KeyError", val |-> None]
      ELSE LET p == T.index[dep]
               T1 == NewStream(T, h, w)
               T2 == IF exclusive THEN add_child_exclusive(T1, p, h)
                     ELSE add_child(T1, p, h)
           IN  [T |-> [T2 EXCEPT !.index = Ext(@, id, h)],
                kind |-> "ok", val |-> None]

\* PriorityTree.insert_stream; depends_on = None when it is not given.
insert_stream(T, id, depends_on, w, exclusive) ==
  IF id \in DOMAIN T.index
  THEN [T |-> T, kind |-> "AssertionError", val |-> None]
  ELSE LET h == HandleOf(id)
           dep == IF exclusive THEN depends_on
                  ELSE IF depends_on = None \/ depends_on = 0 THEN 0
                  ELSE depends_on
       IN  IF exclusive /\ depends_on = None
           THEN [T |-> T, kind |-> "AssertionError", val |-> None]
           ELSE IF dep \notin DOMAIN T.index
           THEN [T |-> T, kind |-> "KeyError", val |-> None]
           ELSE LET p == T.index[dep]
                    T1 == NewStream(T, h, w)
                    T2 == IF exclusive THEN add_child_exclusive(T1, p, h)
                          ELSE add_child(T1, p, h)
                IN  [T |-> [T2 EXCEPT !.index = Ext(@, id, h)],
                     kind |-> "ok", val |-> None]

\* Mutant: the removed stream keeps its entry in _streams.
remove_stream_KeepIndex(T, id) ==
  IF id \notin DOMAIN T.index
  THEN [T |-> T, kind |-> "KeyError", val |-> None]
  ELSE LET child == T.index[id]
           p == T.parent[child]
       IN  IF p = None
           THEN [T |-> T, kind |-> "AttributeError", val |-> None]
           ELSE [T |-> remove_child(T, p, child), kind |-> "ok", val |-> None]

\* PriorityTree.remove_stream
remove_stream(T, id) ==
  IF id \notin DOMAIN T.index
  THEN [T |-> T, kind |-> "KeyError", val |-> None]
  ELSE LET child == T.index[id]
           T1 == [T EXCEPT !.index = Drop(@, id)]
           p == T.parent[child]
       IN  IF p = None
           THEN [T |-> T1, kind |-> "AttributeError", val |-> None]
           ELSE [T |-> Collect(remove_child(T1, p, child), child),
                 kind |-> "ok", val |-> None]

\* PriorityTree.block
block(T, id) ==
  IF id \notin DOMAIN T.index
  THEN [T |-> T, kind |-> "KeyError", val |-> None]
  ELSE [T |-> [T EXCEPT !.active[T.index[id]] = FALSE],
        kind |-> "ok", val |-> None]

\* Mutant: unblock marks the stream blocked, as block does.
unblock_AsBlock(T, id) ==
  IF id \notin DOMAIN T.index
  THEN [T |-> T, kind |-> "KeyError", val |-> None]
  ELSE [T |-> [T EXCEPT !.active[T.index[id]] = FALSE],
        kind |-> "ok", val |-> None]

\* PriorityTree.unblock
unblock(T, id) ==
  IF id \notin DOMAIN T.index
  THEN [T |-> T, kind |-> "KeyError", val |-> None]
  ELSE [T |-> [T EXCEPT !.active[T.index[id]] = TRUE],
        kind |-> "ok", val |-> None]

\* PriorityTree.__next__ / next
next(T) ==
  LET r == schedule(T, RootH)
  IN  IF r.kind = "Empty"
      THEN [T |-> r.T, kind |-> "DeadlockError", val |-> None]
      ELSE r

\* ------------------------------------------------------ the API model

NoRet == [op |-> "none", kind |-> "ok", val |-> None]

\* A call of the tree's owner: the tree afterwards, and in ret what the last
\* call of next returned or raised (NoRet when the last call was not next).
Done(op, r) ==
  /\ Install(r.T)
  /\ ret' = IF op = "next" THEN [op |-> op, kind |-> r.kind, val |-> r.val]
            ELSE NoRet

InitVars(T) ==
  /\ index = T.index
  /\ weight = T.weight
  /\ active = T.active
  /\ parent = T.parent
  /\ children = T.children
  /\ child_queue = T.child_queue
  /\ last_weight = T.last_weight
  /\ defecit = T.defecit
  /\ ret = NoRet
  /\ results = <<>>
  /\ chosen = {}
  /\ calls = 0

Init ==
  /\ InitVars(InitTree)
  /\ pc = "api"
  /\ mode = "api"

InsertStream ==
  /\ pc = "api"
  /\ \E id \in Ids, dep \in Deps, w \in Weights :
       Done("insert", insert_stream(Tree, id, dep, w, FALSE))
  /\ UNCHANGED <<results, pc, mode, chosen, calls>>

InsertExclusive ==
  /\ pc = "api"
  /\ \E id \in Ids, dep \in Deps, w \in Weights :
       Done("insert_exclusive", insert_stream(Tree, id, dep, w, TRUE))
  /\ UNCHANGED <<results, pc, mode, chosen, calls>>

RemoveStream ==
  /\ pc = "api"
  /\ \E id \in Ids : Done("remove", remove_stream(Tree, id))
  /\ UNCHANGED <<results, pc, mode, chosen, calls>>

Block ==
  /\ pc = "api"
  /\ \E id \in Ids : Done("block", block(Tree, id))
  /\ UNCHANGED <<results, pc, mode, chosen, calls>>

Unblock ==
  /\ pc = "api"
  /\ \E id \in Ids : Done("unblock", unblock(Tree, id))
  /\ UNCHANGED <<results, pc, mode, chosen, calls>>

NextCall ==
  /\ pc = "api"
  /\ calls < MaxNext
  /\ Done("next", next(Tree))
  /\ calls' = calls + 1
  /\ UNCHANGED <<results, pc, mode, chosen>>

Next ==
  \/ InsertStream
  \/ InsertExclusive
  \/ RemoveStream
  \/ Block
  \/ Unblock
  \/ NextCall

Spec == Init /\ [][Next]_vars

\* ----------------------------------------------------- tree vocabulary

Range(s) == {s[i] : i \in 1 .. Len(s)}

Live == DOMAIN active

RECURSIVE AncestorsUpTo(_, _, _)
\* The proper ancestors of h in P, following at most n parent references.
AncestorsUpTo(P, h, n) ==
  IF n = 0 \/ h \notin DOMAIN P \/ P[h] = None THEN {}
  ELSE {P[h]} \cup AncestorsUpTo(P, P[h], n - 1)

RECURSIVE DescendantsUpTo(_, _, _)
DescendantsUpTo(C, hs, n) ==
  LET below == UNION {Range(C[h]) : h \in hs \cap DOMAIN C}
  IN  IF n = 0 \/ below \subseteq hs THEN hs \cup below
      ELSE DescendantsUpTo(C, hs \cup below, n - 1)

ProperAncestorsOf(T, h) ==
  AncestorsUpTo(T.parent, h, Cardinality(DOMAIN T.active))

\* The streams below the root object of T: what the scheduler can reach.
InTreeOf(T) ==
  DescendantsUpTo(T.children, {RootH}, Cardinality(DOMAIN T.active)) \ {RootH}

\* The streams next may return: active, and no proper ancestor active.
SchedulableOf(T) ==
  {h \in InTreeOf(T) :
      T.active[h] /\ \A a \in ProperAncestorsOf(T, h) : ~T.active[a]}

ProperAncestors(h) == ProperAncestorsOf(Tree, h)

InTree == InTreeOf(Tree)

Schedulable == SchedulableOf(Tree)

\* The ids of the streams of the tree: _streams without the root's entry.
Streams == (DOMAIN index) \ {0}

\* The orders in which the elements of S can be listed.
Perms(S) ==
  {f \in [1 .. Cardinality(S) -> S] : \A i, j \in DOMAIN f : f[i] = f[j] => i = j}

RECURSIVE BlockSeq(_, _, _)
\* "for id in ids: tree.block(id)", from position i of ids on.
BlockSeq(T, ids, i) ==
  IF i > Len(ids) THEN T ELSE BlockSeq(block(T, ids[i]).T, ids, i + 1)

RECURSIVE UnblockSeq(_, _, _)
\* "for id in ids: tree.unblock(id)", from position i of ids on.
UnblockSeq(T, ids, i) ==
  IF i > Len(ids) THEN T ELSE UnblockSeq(unblock(T, ids[i]).T, ids, i + 1)

RECURSIVE RemoveSeq(_, _, _)
\* "for id in ids: tree.remove_stream(id)", from position i of ids on.
RemoveSeq(T, ids, i) ==
  IF i > Len(ids) THEN T ELSE RemoveSeq(remove_stream(T, ids[i]).T, ids, i + 1)

RECURSIVE Run(_, _)
\* "[next(tree) for _ in range(n)]": what the n calls return (None for a
\* call that raises).
Run(T, n) ==
  IF n = 0 THEN <<>>
  ELSE LET r == next(T) IN <<r.val>> \o Run(r.T, n - 1)


\* --------------------------------------- flat trees (weighted round robin)

\* The weights the streams of a flat tree are given.
FlatWeights == {1, 3, QUANTUM}

\* The sum of the weights of the streams of the tree.
RECURSIVE SumWeights(_)
SumWeights(hs) ==
  IF hs = {} THEN 0
  ELSE LET h == CHOOSE x \in hs : TRUE IN weight[h] + SumWeights(hs \ {h})

Period == SumWeights(InTree)

InitFlat ==
  /\ InitVars(InitTree)
  /\ pc = "flat_build"
  /\ mode = "flat"

\* p.insert_stream(stream_id=stream, weight=weight), before the first next.
\* The streams are inserted in ascending order of their ids: the order of the
\* insertions shows only in root.children, which schedule does not read.
FlatInsert ==
  /\ pc = "flat_build"
  /\ \E id \in 1 .. MaxFlat, w \in FlatWeights :
       /\ \A other \in Streams : other < id
       /\ Done("insert", insert_stream(Tree, id, None, w, FALSE))
  /\ UNCHANGED <<results, pc, mode, chosen, calls>>

\* next(p), its result appended to the results so far.
FlatNext ==
  /\ pc \in {"flat_build", "flat_run"}
  /\ Len(results) < Cardinality(Streams) + Periods * Period
  /\ LET r == next(Tree)
     IN  /\ Done("next", r)
         /\ results' = Append(results, r.val)
  /\ pc' = "flat_run"
  /\ calls' = calls + 1
  /\ UNCHANGED <<mode, chosen>>

NextFlat ==
  \/ FlatInsert
  \/ FlatNext

SpecFlat == InitFlat /\ [][NextFlat]_vars


\* ------------------------------------------------------ the readme tree

\* readme_tree() of the tests: the calls of insert_stream, in order.
ReadmeScript ==
  << [id |-> 1, dep |-> None, w |-> DefaultWeight, ex |-> FALSE],
     [id |-> 3, dep |-> None, w |-> DefaultWeight, ex |-> FALSE],
     [id |-> 5, dep |-> 1, w |-> DefaultWeight, ex |-> FALSE],
     [id |-> 7, dep |-> None, w |-> 32, ex |-> FALSE],
     [id |-> 9, dep |-> 7, w |-> 8, ex |-> FALSE],
     [id |-> 11, dep |-> 7, w |-> DefaultWeight, ex |-> TRUE] >>

ReadmeIds == {ReadmeScript[i].id : i \in DOMAIN ReadmeScript}

ReadmeCall(T, c) == insert_stream(T, c.id, c.dep, c.w, c.ex)

RECURSIVE ReadmeUpTo(_)
\* The tree after the first n calls of the script.
ReadmeUpTo(n) ==
  IF n = 0 THEN InitTree ELSE ReadmeCall(ReadmeUpTo(n - 1), ReadmeScript[n]).T

ReadmeTree == ReadmeUpTo(Len(ReadmeScript))

RECURSIVE SortedSeq(_)
\* The ids of S in ascending order.
SortedSeq(S) ==
  IF S = {} THEN <<>>
  ELSE LET m == CHOOSE x \in S : \A y \in S : x <= y
       IN  <<m>> \o SortedSeq(S \ {m})

InitReadme ==
  /\ InitVars(InitTree)
  /\ pc = "build"
  /\ mode = "fresh"

\* The next call of readme_tree().
ReadmeBuild ==
  /\ pc = "build"
  /\ LET n == Cardinality(Streams) + 1
     IN  /\ Done("insert", ReadmeCall(Tree, ReadmeScript[n]))
         /\ pc' = IF n = Len(ReadmeScript) THEN "filter" ELSE "build"
  /\ UNCHANGED <<results, mode, chosen, calls>>

\* "for stream_id in blocked: tree.block(stream_id)", one call, in any order.
ReadmeBlock ==
  /\ pc = "filter"
  /\ mode \in {"fresh", "block"}
  /\ \E id \in ReadmeIds \ chosen :
       /\ Done("block", block(Tree, id))
       /\ chosen' = chosen \cup {id}
  /\ mode' = "block"
  /\ UNCHANGED <<results, pc, calls>>

\* "for stream_id in blocked: tree.remove_stream(stream_id)", one call, in
\* any order.
ReadmeRemove ==
  /\ pc = "filter"
  /\ mode \in {"fresh", "remove"}
  /\ \E id \in ReadmeIds \ chosen :
       /\ Done("remove", remove_stream(Tree, id))
       /\ chosen' = chosen \cup {id}
  /\ mode' = "remove"
  /\ UNCHANGED <<results, pc, calls>>

\* next(tree), its result appended to the results so far.
ReadmeNext ==
  /\ pc \in {"filter", "run"}
  /\ Len(results) < MaxRun
  /\ LET r == next(Tree)
     IN  /\ Done("next", r)
         /\ results' = Append(results, r.val)
  /\ pc' = "run"
  /\ calls' = calls + 1
  /\ UNCHANGED <<mode, chosen>>

NextReadme ==
  \/ ReadmeBuild
  \/ ReadmeBlock
  \/ ReadmeRemove
  \/ ReadmeNext

SpecReadme == InitReadme /\ [][NextReadme]_vars

\* ------------------------------------------- weights of any value

\* The weights a caller may pass: insert_stream takes any integer.  0 and
\* QUANTUM + 1 are the nearest values outside 1 .. QUANTUM.
AnyWeights == {0, DefaultWeight, QUANTUM + 1}

ValidWeights == 1 .. QUANTUM

InitWeights ==
  /\ InitVars(InitTree)
  /\ pc = "weights"
  /\ mode = "weights"

\* insert_stream(id, depends_on, weight, exclusive) with a weight of any value
\* and an id other than 0.
WeightInsert ==
  /\ pc = "weights"
  /\ \E id \in 1 .. MaxId, dep \in {None} \cup (1 .. MaxId), w \in AnyWeights,
        ex \in BOOLEAN :
       Done("insert", insert_stream(Tree, id, dep, w, ex))
  /\ UNCHANGED <<results, pc, mode, chosen, calls>>

WeightRemove ==
  /\ pc = "weights"
  /\ \E id \in 1 .. MaxId : Done("remove", remove_stream(Tree, id))
  /\ UNCHANGED <<results, pc, mode, chosen, calls>>

WeightBlock ==
  /\ pc = "weights"
  /\ \E id \in 1 .. MaxId : Done("block", block(Tree, id))
  /\ UNCHANGED <<results, pc, mode, chosen, calls>>

WeightUnblock ==
  /\ pc = "weights"
  /\ \E id \in 1 .. MaxId : Done("unblock", unblock(Tree, id))
  /\ UNCHANGED <<results, pc, mode, chosen, calls>>

WeightNext ==
  /\ pc = "weights"
  /\ calls < MaxNext
  /\ Done("next", next(Tree))
  /\ calls' = calls + 1
  /\ UNCHANGED <<results, pc, mode, chosen>>

NextWeights ==
  \/ WeightInsert
  \/ WeightRemove
  \/ WeightBlock
  \/ WeightUnblock
  \/ WeightNext

SpecWeights == InitWeights /\ [][NextWeights]_vars

\* --------------------------------------------- successful calls only

InitOk ==
  /\ InitVars(InitTree)
  /\ pc = "ok"
  /\ mode = "ok"

\* A call that returns normally.
DoneOk(op, r) == r.kind = "ok" /\ Done(op, r)

OkInsert ==
  /\ pc = "ok"
  /\ \E id \in Ids, dep \in Deps, w \in Weights, ex \in BOOLEAN :
       DoneOk("insert", insert_stream(Tree, id, dep, w, ex))
  /\ UNCHANGED <<results, pc, mode, chosen, calls>>

OkRemove ==
  /\ pc = "ok"
  /\ \E id \in Ids : DoneOk("remove", remove_stream(Tree, id))
  /\ UNCHANGED <<results, pc, mode, chosen, calls>>

OkBlock ==
  /\ pc = "ok"
  /\ \E id \in Ids : DoneOk("block", block(Tree, id))
  /\ UNCHANGED <<results, pc, mode, chosen, calls>>

OkUnblock ==
  /\ pc = "ok"
  /\ \E id \in Ids : DoneOk("unblock", unblock(Tree, id))
  /\ UNCHANGED <<results, pc, mode, chosen, calls>>

OkNext ==
  /\ pc = "ok"
  /\ calls < MaxNext
  /\ DoneOk("next", next(Tree))
  /\ calls' = calls + 1
  /\ UNCHANGED <<results, pc, mode, chosen>>

NextOk ==
  \/ OkInsert
  \/ OkRemove
  \/ OkBlock
  \/ OkUnblock
  \/ OkNext

SpecOk == InitOk /\ [][NextOk]_vars

\* ------------------------------------- only next() from some point on

\* The owner stops changing the tree: from here on it only calls next().
Freeze ==
  /\ pc = "ok"
  /\ pc' = "frozen"
  /\ ret' = NoRet
  /\ UNCHANGED <<index, weight, active, parent, children, child_queue,
                 last_weight, defecit, results, mode, chosen, calls>>

\* next(tree) after the freeze, its result appended to the results so far;
\* r is what the one call returns or raises, with the tree it leaves.
LiveNext ==
  /\ pc = "frozen"
  /\ Len(results) < MaxLive
  /\ \E r \in {next(Tree)} :
         /\ Done("next", r)
         /\ results' = Append(results, r.val)
  /\ UNCHANGED <<pc, mode, chosen, calls>>

NextLive ==
  \/ NextOk
  \/ Freeze
  \/ LiveNext

\* The owner that iterates over the tree keeps calling next().
SpecLive == InitOk /\ [][NextLive]_vars /\ WF_vars(LiveNext)

\* ------------------------------------------------------------- claims

\* C1: every id next() returns is the id of a stream that is in the tree
\* (indexed and below the root), is active, and has no active proper ancestor.
C1_NextReturnsSchedulable ==
  (ret.op = "next" /\ ret.kind = "ok") =>
     \E h \in Schedulable :
        /\ stream_id(h) = ret.val
        /\ ret.val \in DOMAIN index
        /\ index[ret.val] = h

\* C1 witness: next() returned a stream that hides an active child of its own.
C1_Witness ==
  /\ ret.op = "next"
  /\ ret.kind = "ok"
  /\ \E h \in Schedulable, c \in InTree :
        stream_id(h) = ret.val /\ parent[c] = h /\ active[c]

\* C2: next() raises DeadlockError exactly when no non-root stream of the tree
\* is active, and returns a stream id whenever one is active.
C2_DeadlockIffNoneActive ==
  ret.op = "next" =>
     /\ (ret.kind = "DeadlockError") <=> (\A h \in InTree : ~active[h])
     /\ (\E h \in InTree : active[h]) => ret.kind = "ok"

\* C10: a successful exclusive insertion of id below p makes the new stream
\* the sole child of p, makes every former child of p a child of the new
\* stream, leaves everything below those children as it was, and the new
\* stream is active; it succeeds below any existing p, the root included.
C10_ExclusiveInsert ==
  \A id \in Ids, dep \in Ids, w \in Weights :
     LET r == insert_stream(Tree, id, dep, w, TRUE)
         h == HandleOf(id)
     IN  /\ (id \notin DOMAIN index /\ dep \in DOMAIN index) => r.kind = "ok"
         /\ r.kind = "ok" =>
              LET p == index[dep]
                  old == Range(children[p])
                  N == r.T
              IN  /\ N.index = Ext(index, id, h)
                  /\ N.children[p] = <<h>>
                  /\ N.parent[h] = p
                  /\ Range(N.children[h]) = old
                  /\ Len(N.children[h]) = Cardinality(old)
                  /\ \A c \in old : N.parent[c] = h
                  /\ \A x \in Live \ {p} :
                        /\ N.children[x] = children[x]
                        /\ N.child_queue[x] = child_queue[x]
                        /\ x \notin old => N.parent[x] = parent[x]
                  /\ N.parent[p] = parent[p]
                  /\ N.active[h]
                  /\ \A x \in Live : N.active[x] = active[x]

\* C10 witness: an exclusive insertion below the root (depends_on = 0), after
\* some calls of next, that displaces a child of the root.
C10_Witness ==
  \E id \in Ids, w \in Weights :
     LET r == insert_stream(Tree, id, 0, w, TRUE)
     IN  /\ r.kind = "ok"
         /\ 0 \in DOMAIN index
         /\ index[0] = RootH
         /\ last_weight[RootH] > 0
         /\ \E c \in Range(children[RootH]) :
               /\ r.T.parent[c] = HandleOf(id)
               /\ r.T.children[RootH] = <<HandleOf(id)>>

\* C8: with every stream active, blocking exactly the streams of B leaves the
\* tree in the same state as blocking every stream and then unblocking exactly
\* the others, whatever the order of the individual calls; the results of
\* next() from the two states are then the same.
C8_BlockingIsDualOfUnblocking ==
  (\A id \in Streams : active[index[id]]) =>
     \A B \in SUBSET Streams :
        \A oB \in Perms(B), oS \in Perms(Streams), oU \in Perms(Streams \ B) :
           LET direct == BlockSeq(Tree, oB, 1)
               dual == UnblockSeq(BlockSeq(Tree, oS, 1), oU, 1)
           IN  /\ direct = dual
               /\ Run(direct, MaxNext) = Run(dual, MaxNext)

\* C8 witness: two active streams, one below the other, after calls of next;
\* blocking both and unblocking the child leaves exactly the parent blocked.
C8_Witness ==
  /\ calls > 0
  /\ Streams = {1, 2}
  /\ active[1] /\ active[2]
  /\ parent[2] = 1
  /\ LET dual == UnblockSeq(BlockSeq(Tree, <<1, 2>>, 1), <<2>>, 1)
     IN  ~dual.active[1] /\ dual.active[2] /\ Run(dual, 1) = <<2>>

\* The number of times id occurs among results[from .. to].
Count(id, from, to) == Cardinality({i \in from .. to : results[i] = id})

\* C3: in a flat tree of active streams with period P (the sum of the weights)
\* the results repeat with period P after the first |S|: the result at any
\* position past |S| + k*P is the result k*P positions earlier.  Stated of
\* the last result of every state: every position is the last one of a state.
C3_PeriodOfRepetition ==
  LET n == Cardinality(Streams)
      len == Len(results)
  IN  \A k \in 1 .. Periods :
         len - k * Period > n => results[len] = results[len - k * Period]

\* C3 witness: three streams of different weights, one of them not a divisor
\* of 256, two full periods after the first three results.
C3_Witness ==
  /\ Cardinality(Streams) = 3
  /\ \E a, b \in InTree : weight[a] = 3 /\ weight[b] = QUANTUM
  /\ Len(results) = 3 + 2 * Period

\* C4: in a flat tree of active streams, any Period consecutive results past
\* the first |S| hold each stream exactly as many times as its weight.  Stated
\* of the last Period results of every state: every window ends some state.
C4_WeightProportional ==
  LET n == Cardinality(Streams)
      len == Len(results)
  IN  len - Period >= n =>
         \A id \in Streams :
            Count(id, len - Period + 1, len) = weight[index[id]]

\* C4 witness: a window of Period results that ends in the middle of the
\* second period, in a tree of three streams with weights 1, 3 and 256.
C4_Witness ==
  /\ Cardinality(Streams) = 3
  /\ {weight[h] : h \in InTree} = {1, 3, QUANTUM}
  /\ Len(results) = 3 + Period + 100

\* C5: in a flat tree of active streams all inserted before the first next(),
\* the first |S| results are a permutation of S, whatever the weights.
C5_InitialBurst ==
  LET n == Cardinality(Streams)
      m == IF Len(results) < n THEN Len(results) ELSE n
  IN  /\ \A i \in 1 .. m : results[i] \in Streams
      /\ \A i, j \in 1 .. m : results[i] = results[j] => i = j
      /\ Len(results) >= n => {results[i] : i \in 1 .. n} = Streams

\* C5 witness: three streams, the heaviest (weight 256, step 1) with the
\* lowest id, and the first three results out.
C5_Witness ==
  /\ Streams = {1, 2, 3}
  /\ weight[1] = QUANTUM /\ weight[2] = 1 /\ weight[3] = 3
  /\ Len(results) = 3

RECURSIVE RootChildOf(_, _)
\* The child of the root whose subtree holds h.
RootChildOf(T, h) ==
  IF T.parent[h] = RootH THEN h ELSE RootChildOf(T, T.parent[h])

\* The ids of the schedulable streams of T, in ascending order of the child of
\* the root whose subtree holds them (at most one per subtree is assumed).
ExpectedOf(T) ==
  LET F == SchedulableOf(T)
      tops == SortedSeq({stream_id(RootChildOf(T, h)) : h \in F})
  IN  [i \in 1 .. Len(tops) |->
         stream_id(CHOOSE h \in F : stream_id(RootChildOf(T, h)) = tops[i])]

\* C6: on the readme tree with the streams of B blocked before the first
\* next(), the first k results, k the number of active streams without active
\* ancestor, are exactly those streams, in ascending order of their root child.
C6_ReadmeInitialOutput ==
  (pc \in {"filter", "run"} /\ mode \in {"fresh", "block"}) =>
     LET expected == ExpectedOf(Tree)
         k == Cardinality(Schedulable)
     IN  /\ \A id \in ReadmeIds : active[index[id]] = (id \notin chosen)
         /\ Len(expected) = k
         /\ \A i \in 1 .. k : i <= Len(results) => results[i] = expected[i]

\* C6 witness: 1, 7 and 11 blocked; the first three results are 5, 3 and 9.
C6_Witness ==
  /\ mode = "block"
  /\ chosen = {1, 7, 11}
  /\ results = <<5, 3, 9>>

\* The tree the streams of chosen were blocked in, instead of removed from.
ReadmeBlocked == BlockSeq(ReadmeTree, SortedSeq(chosen), 1)

\* C7 (amended): on the freshly built readme tree, the set of ids that |A|
\* calls of next() give after removing the streams of B (in any order) is the
\* set they give after blocking the streams of B, A being the streams outside
\* B that have no ancestor outside B.
C7_ReadmeRemoveLikeBlock ==
  LET n == Cardinality(SchedulableOf(ReadmeBlocked))
  IN  (mode = "remove" /\ Len(results) = n) =>
         Range(results) = Range(Run(ReadmeBlocked, n))

\* C7 witness: 7 and 1 removed, in this order: 11 and 5 are now children of
\* the root, and the three results are 3, 5 and 11 in some order.
C7_Witness ==
  /\ mode = "remove"
  /\ chosen = {1, 7}
  /\ children[RootH] = <<3, 11, 5>>
  /\ Len(results) = 3
  /\ Range(results) = {3, 5, 11}

\* C7 as claimed: from any tree state whose streams are all active and any
\* subset B of them, |A| calls of next() give the same set of ids after
\* blocking B as after removing B.
C7_RemoveLikeBlockAnywhere ==
  (\A id \in Streams : active[index[id]]) =>
     \A B \in SUBSET Streams :
        LET blocked == BlockSeq(Tree, SortedSeq(B), 1)
            removed == RemoveSeq(Tree, SortedSeq(B), 1)
            n == Cardinality(SchedulableOf(blocked))
        IN  Range(Run(blocked, n)) = Range(Run(removed, n))

\* C9 (amended): on the fresh readme tree remove_stream(7) re-parents 11, the
\* only child 7 has since the exclusive insertion, to the root; 9 stays below
\* 11; the first 3 results of next() are a permutation of {1, 3, 11}, and 9 is
\* not returned while 11 is active.
C9_RemoveSeven ==
  (mode = "remove" /\ chosen = {7}) =>
     /\ 7 \notin DOMAIN index
     /\ children[RootH] = <<1, 3, 11>>
     /\ parent[11] = RootH
     /\ parent[9] = 11
     /\ children[11] = <<9>>
     /\ Len(results) >= 3 => {results[i] : i \in 1 .. 3} = {1, 3, 11}
     /\ 9 \notin Range(results)

\* C9 witness: stream 7 removed and four results out: 1, 3, 11 and 1 again.
C9_Witness ==
  /\ mode = "remove"
  /\ chosen = {7}
  /\ Len(results) = 4
  /\ results = <<1, 3, 11, 1>>

\* C9 as claimed: remove_stream(7) re-parents both 9 and 11 to the root and
\* the first 4 results are a permutation of {1, 3, 9, 11}.
C9_RemoveSevenBothReparented ==
  (mode = "remove" /\ chosen = {7}) =>
     /\ parent[9] = RootH
     /\ parent[11] = RootH
     /\ Len(results) >= 4 => {results[i] : i \in 1 .. 4} = {1, 3, 9, 11}

\* C11: a successful remove_stream(id) of a non-root stream with parent p takes
\* id out of the index and out of p's children, makes every former child of
\* the stream a child of p (parent reference p) that is still in the index,
\* and changes the parent of no other stream.
C11_RemoveReparents ==
  \A id \in Ids :
     LET r == remove_stream(Tree, id)
     IN  r.kind = "ok" =>
           LET c == index[id]
               p == parent[c]
               below == Range(children[c])
               N == r.T
           IN  /\ c # RootH
               /\ id \notin DOMAIN N.index
               /\ \A x \in Range(N.children[p]) : x # c /\ stream_id(x) # id
               /\ \A g \in below :
                     /\ g \in Range(N.children[p])
                     /\ N.parent[g] = p
                     /\ \E i \in DOMAIN N.index : N.index[i] = g
               /\ \A x \in Live \ ({c} \cup below) : N.parent[x] = parent[x]

\* C11 witness: after a call of next, stream 1 below the root with the child
\* 2; removing 1 succeeds and makes 2 a child of the root.
C11_Witness ==
  /\ calls > 0
  /\ Streams = {1, 2}
  /\ 0 \in DOMAIN index
  /\ parent[1] = RootH
  /\ parent[2] = 1
  /\ LET r == remove_stream(Tree, 1)
     IN  r.kind = "ok" /\ r.T.parent[2] = RootH /\ r.T.children[RootH] = <<2>>

\* C12: remove_stream(id), block(id) and unblock(id) with an id that is absent
\* or with id 0 fail with an error and leave the whole tree as it was (index
\* with its entry 0 -> root, links, active flags, queue levels).
C12_RejectedCallChangesNothing ==
  \A id \in Ids :
     (id = 0 \/ id \notin DOMAIN index) =>
        \A r \in {remove_stream(Tree, id), block(Tree, id), unblock(Tree, id)} :
           r.kind # "ok" /\ r.T = Tree

\* C13: the root stream is inactive in every reachable state, so next() never
\* fails the assertion of schedule() on the root.
C13_RootNeverActive ==
  /\ \A h \in Live : h = RootH => ~active[h]
  /\ ret.op = "next" => ret.kind # "AssertionError"

\* C14: insert_stream with an id that is present already (0 included), or with
\* a depends_on that is not present, fails with an error, and every rejected
\* insert leaves index, links, active flags and queues exactly as they were.
C14_RejectedInsertChangesNothing ==
  \A id \in Ids, dep \in Deps, w \in Weights, ex \in BOOLEAN :
     LET r == insert_stream(Tree, id, dep, w, ex)
     IN  /\ id \in DOMAIN index => r.kind # "ok"
         /\ (dep # None /\ dep \notin DOMAIN index) => r.kind # "ok"
         /\ r.kind # "ok" => r.T = Tree

\* C14 witness: after a call of next the tree holds stream 1 alone; inserting
\* 1 again fails its assertion, and inserting 2 below the absent 2 or, as an
\* exclusive child, below the absent 2 fails with KeyError.
C14_Witness ==
  /\ calls > 0
  /\ DOMAIN index = {0, 1}
  /\ child_queue[RootH] # <<>>
  /\ insert_stream(Tree, 1, None, DefaultWeight, FALSE).kind = "AssertionError"
  /\ insert_stream(Tree, 0, 1, DefaultWeight, FALSE).kind = "AssertionError"
  /\ insert_stream(Tree, 2, 2, DefaultWeight, FALSE).kind = "KeyError"
  /\ insert_stream(Tree, 2, 2, DefaultWeight, TRUE).kind = "KeyError"

\* C15: insert_stream with a weight outside 1 .. 256 fails with an error, no
\* stream of the tree has such a weight, and next() never divides by a zero
\* weight.
C15_InvalidWeightRejected ==
  /\ \A id \in 1 .. MaxId, w \in AnyWeights \ ValidWeights :
        insert_stream(Tree, id, None, w, FALSE).kind # "ok"
  /\ \A h \in Live \ {RootH} : weight[h] \in ValidWeights
  /\ ret.op = "next" => ret.kind # "ZeroDivisionError"

\* The number of positions of the sequence s that hold x.
Occurs(s, x) == Cardinality({i \in 1 .. Len(s) : s[i] = x})

\* The streams of the entries of the queue q, in the order of the queue.
QueueStreams(q) == [i \in 1 .. Len(q) |-> q[i][2]]

\* C16: after every public operation, each node's child_queue holds exactly
\* one entry for each stream of the node's children and none for any other.
C16_QueueMatchesChildren ==
  \A h \in Live :
     /\ Len(child_queue[h]) = Len(children[h])
     /\ \A c \in Range(children[h]) :
           Occurs(children[h], c) = 1 /\ Occurs(QueueStreams(child_queue[h]), c) = 1
     /\ Range(QueueStreams(child_queue[h])) \subseteq Range(children[h])

\* C17: after any sequence of successful calls the indexed streams form a tree
\* rooted at id 0: every indexed non-root stream has one parent, is in the
\* children of exactly one node, its parent, and once; it is reachable from
\* the root through children; and parent references never cycle.
C17_TreeShape ==
  /\ 0 \in DOMAIN index
  /\ index[0] = RootH
  /\ parent[RootH] = None
  /\ \A id \in Streams :
        LET s == index[id]
        IN  /\ s \in Live
            /\ stream_id(s) = id
            /\ parent[s] \in Live
            /\ {h \in Live : s \in Range(children[h])} = {parent[s]}
            /\ Occurs(children[parent[s]], s) = 1
            /\ s \in InTree
            /\ RootH \in ProperAncestors(s)
            /\ s \notin ProperAncestors(s)
  /\ InTree = {index[id] : id \in Streams}

\* C17 witness: after two calls of next, 1 is the child of the blocked 2,
\* the only child of the root.
C17_Witness ==
  /\ mode = "ok"
  /\ calls = MaxNext
  /\ Streams = {1, 2}
  /\ children[RootH] = <<2>>
  /\ children[2] = <<1>>
  /\ ~active[2]

\* The parent a plain insert_stream attaches to: depends_on, or 0 in its place
\* when it is None or 0 (line 214).
ParentId(dep) == IF dep = None THEN 0 ELSE dep

\* C18: a plain insert_stream below p enqueues the new stream in p's queue at
\* p's last level at the time of the call; remove_stream enqueues every child
\* of the removed stream in the new parent's queue at that parent's last
\* level; neither they nor block and unblock change any last level; an
\* exclusive insertion sets the parent's last level to 0, and the new stream
\* and its adopted children join at 0.
C18_JoinAtLastLevel ==
  /\ \A id \in Ids, dep \in Deps, w \in Weights :
        LET r == insert_stream(Tree, id, dep, w, FALSE)
            x == insert_stream(Tree, id, dep, w, TRUE)
            h == HandleOf(id)
        IN  /\ r.kind = "ok" =>
                  LET p == index[ParentId(dep)]
                  IN  /\ Occurs(r.T.child_queue[p], <<last_weight[p], h>>) = 1
                      /\ \A y \in Live : r.T.last_weight[y] = last_weight[y]
            /\ x.kind = "ok" =>
                  LET p == index[dep]
                  IN  /\ x.T.last_weight[p] = 0
                      /\ x.T.child_queue[p] = << <<0, h>> >>
                      /\ \A c \in Range(children[p]) :
                            Occurs(x.T.child_queue[h], <<0, c>>) = 1
                      /\ \A y \in Live \ {p} : x.T.last_weight[y] = last_weight[y]
  /\ \A id \in Ids :
        LET r == remove_stream(Tree, id)
        IN  /\ r.kind = "ok" =>
                  LET c == index[id]
                      p == parent[c]
                  IN  /\ \A g \in Range(children[c]) :
                            Occurs(r.T.child_queue[p], <<last_weight[p], g>>) = 1
                      /\ \A y \in Live \ {c} : r.T.last_weight[y] = last_weight[y]
            /\ block(Tree, id).T.last_weight = last_weight
            /\ unblock(Tree, id).T.last_weight = last_weight

\* C18 witness: the root's last level is above 0, 2 is the child of 1 below
\* the root; removing 1 puts 2 into the root's queue at the root's last level,
\* and inserting 1 anew puts it there at the same level.
C18_Witness ==
  /\ last_weight[RootH] > 0
  /\ Streams = {1, 2}
  /\ 0 \in DOMAIN index
  /\ parent[1] = RootH
  /\ parent[2] = 1
  /\ LET r == remove_stream(Tree, 1)
         i == insert_stream(r.T, 1, None, DefaultWeight, FALSE)
     IN  /\ r.T.child_queue[RootH] = << <<last_weight[RootH], 2>> >>
         /\ i.kind = "ok"
         /\ Occurs(i.T.child_queue[RootH], <<last_weight[RootH], 1>>) = 1

\* C19: when remove_stream takes a child off its parent p, every other child
\* of p keeps its queue level, its deficit and its active flag, and p keeps
\* its last level; p's queue loses the entry of the removed stream and gains
\* one entry for each of its children, nothing else.
C19_RemoveKeepsSiblings ==
  \A id \in Ids :
     LET r == remove_stream(Tree, id)
     IN  r.kind = "ok" =>
           LET c == index[id]
               p == parent[c]
               N == r.T
               kept == {e \in Range(child_queue[p]) : e[2] # c}
               added == {<<last_weight[p], g>> : g \in Range(children[c])}
           IN  /\ \A s \in Range(children[p]) \ {c} :
                     /\ \A e \in Range(child_queue[p]) :
                           e[2] = s => Occurs(N.child_queue[p], e) = 1
                     /\ N.defecit[s] = defecit[s]
                     /\ N.active[s] = active[s]
               /\ N.last_weight[p] = last_weight[p]
               /\ Range(N.child_queue[p]) = kept \cup added
               /\ Len(N.child_queue[p]) = Cardinality(kept) + Len(children[c])

\* C19 witness: 1 and 2 are children of the root, 2 with a level and a deficit
\* above 0 after calls of next; removing 1 leaves the entry of 2 alone.
C19_Witness ==
  /\ Streams = {1, 2}
  /\ 0 \in DOMAIN index
  /\ parent[1] = RootH
  /\ parent[2] = RootH
  /\ defecit[2] > 0
  /\ last_weight[RootH] > 0
  /\ \E e \in Range(child_queue[RootH]) :
        /\ e[2] = 2
        /\ e[1] > 0
        /\ remove_stream(Tree, 1).T.child_queue[RootH] = <<e>>

\* The ids of the streams that are active and have no active ancestor.
SchedulableIds == {stream_id(h) : h \in Schedulable}

\* C20: no starvation.  With all weights in 1 .. 256 and only next() called
\* from some point on, every stream that is active and has no active ancestor
\* is eventually returned by next(), and again after each time it has been
\* returned, whatever levels and deficits the calls before have left: after
\* the freeze, whenever the last call has not returned the stream (or there
\* was none yet), a later call returns it.
C20_NoStarvation ==
  \A id \in 1 .. MaxId :
     (/\ pc = "frozen"
      /\ id \in SchedulableIds
      /\ Len(results) <= MaxLive - Horizon
      /\ ret.val # id)
        ~> (ret.op = "next" /\ ret.val = id)

\* C20 witness: after the freeze, stream 1 of weight 3 has waited for more
\* than four calls that returned stream 2 before it is returned.
C20_Witness ==
  /\ pc = "frozen"
  /\ SchedulableIds = {1, 2}
  /\ weight[1] = 3
  /\ Len(results) > 5
  /\ results[Len(results)] = 1
  /\ \A i \in (Len(results) - 5) .. (Len(results) - 1) : results[i] = 2

====
